---- MODULE Spec2Model ----
(***************************************************************************)
(* A model of mininet3's Topology (src/mininet3/core/topology_lib.py) and  *)
(* its nodes (src/mininet3/core/node_lib.py, host_lib.py, switch_lib.py).  *)
(*                                                                         *)
(* Python strings that the code parses (node names, "name.port" endpoint   *)
(* strings) are sequences of one-character strings.  Optional values are   *)
(* <<>> (None) or <<x>>.  A dict is a sequence of [name, val] entries in   *)
(* insertion order.                                                        *)
(***************************************************************************)
EXTENDS Integers, Sequences, FiniteSets, TLC

VARIABLES
    hosts,      \* Topology.hosts: dict name -> node
    switches,   \* Topology.switches: dict name -> node
    links,      \* Topology.links: dict name -> link
    docker,     \* the container runtime: docker[cid] is the status of container cid
    lastOp,     \* the call that made the last step, with its arguments
    result,     \* how that call ended: OK or the exception raised
    calls,      \* the start/stop calls and runtime calls made by that call, in order
    config,     \* the topology's class and the types its constructor was given
    tables,     \* the *_TYPES dicts: tables[kind][name] is the class registered
    returned,   \* the value the last call returned, when it returns one
    mirror      \* the mirror_net nodes: mirror[id] is the Node object id names

vars ==
    <<hosts, switches, links, docker, lastOp, result, calls, config, tables, returned,
      mirror>>

\* ---------------------------------------------------------------- bounds
MaxContainers == 3

\* ---------------------------------------------------------------- values
None == <<>>
Some(x) == <<x>>
OK == "ok"

NodeNames == {<<"a">>, <<"b">>}    \* names that appear in endpoint strings
LinkNames == {<<"l">>}
Ports == {<<"0">>}
DOT == "."

\* the "name.port" strings handed to add_link: well formed ones for every node
\* name, one naming a node that is never added, and one without a separator
EndpointStrings ==
    {n \o <<DOT>> \o p : n \in NodeNames, p \in Ports}
        \cup {<<"c", DOT, "0">>, <<"a", "0">>}

\* an endpoint naming a port past the interfaces a node is built with
PastPortStrings == {<<"a", DOT, "1">>}

\* ---------------------------------------------------------------- dict
Has(d, k) == \E i \in 1..Len(d) : d[i].name = k
Get(d, k) == d[CHOOSE i \in 1..Len(d) : d[i].name = k].val
DictSet(d, k, v) ==
    IF Has(d, k)
    THEN [i \in 1..Len(d) |-> IF d[i].name = k THEN [name |-> k, val |-> v] ELSE d[i]]
    ELSE Append(d, [name |-> k, val |-> v])
DictPop(d, k) == SelectSeq(d, LAMBDA e : e.name # k)

\* ---------------------------------------------------------------- events
\* one entry of calls: ev is "start"/"stop" (a call on the entity `name` of
\* collection `coll`) or "run"/"get"/"cstop" (a call on the container runtime
\* made by that entity, about container `cid`, 0 when there is none)
Event(ev, item, cid) == [ev |-> ev, coll |-> item.coll, name |-> item.name, cid |-> cid]
RuntimeEvents == {"run", "get", "cstop"}

\* ---------------------------------------------------------------- interfaces
IntKey(i) == <<"int", i>>
StrKey(p) == <<"str", p>>
ObjKey == <<"obj">>    \* the node object itself, used as a key of its own dict
IfaceObj == <<"Interface">>
StrVal(p) == <<"str", p>>
NoneVal == <<"None">>

\* ---------------------------------------------------------------- registries
INTERFACE_TYPES == {"default"}
HOST_TYPES == [default |-> "Host", docker |-> "DockerHost"]
SWITCH_TYPES == [default |-> "Switch", docker |-> "DockerSwitch"]
LINK_TYPES == [default |-> "Link"]
\* TOPOLOGY_TYPES: the topology classes by name
TOPOLOGY_TYPES == [default |-> "Topology", linear |-> "LinearTopology"]
CONTROLLER_TYPES == [default |-> "Controller", docker |-> "DockerController"]
\* the dicts as they stand once the modules are imported
BuiltinTables ==
    [controller |-> CONTROLLER_TYPES, host |-> HOST_TYPES,
     interface |-> [n \in INTERFACE_TYPES |-> "Interface"], link |-> LINK_TYPES,
     switch |-> SWITCH_TYPES, topology |-> TOPOLOGY_TYPES]
\* the keys of NODES_BY_TYPE
NODES_BY_TYPE == {"controller", "host", "interface", "link", "switch"}

\* what a lookup gives: the class found, or the exception raised
Found(cls) == [err |-> OK, val |-> Some(cls)]
Missing(e) == [err |-> e, val |-> None]

\* nodes.get_cls_by_name(name, node_type)
get_cls_by_name(t, name, node_type) ==
    IF node_type \notin NODES_BY_TYPE THEN Missing("ValueError")
    ELSE IF name \notin DOMAIN t[node_type] THEN Missing("ValueError")
    ELSE Found(t[node_type][name])

\* get_topology_by_name: TOPOLOGY_TYPES.get(topology_name), None is an error
get_topology_by_name(t, topology_name) ==
    IF topology_name \notin DOMAIN t["topology"] THEN Missing("ValueError")
    ELSE Found(t["topology"][topology_name])

\* dict.update: the entries of u are added to d, replacing those d has
dict_update(d, u) ==
    [n \in (DOMAIN d) \cup (DOMAIN u) |-> IF n \in DOMAIN u THEN u[n] ELSE d[n]]

\* the dicts load_custom_assets updates from the classes' subclasses dicts
LoadedKinds == {"controller", "host", "link", "switch", "topology"}
load_custom_assets(t, subclasses) ==
    [k \in DOMAIN t |-> IF k \in LoadedKinds THEN dict_update(t[k], subclasses[k]) ELSE t[k]]

\* the classes derived from DockerNode; Ubuntu20AlpineHost is the custom host
DockerClasses == {"DockerHost", "DockerSwitch", "Ubuntu20AlpineHost"}
\* the image and command class attributes: DockerNode leaves both None,
\* Ubuntu20AlpineHost sets both
ClassImage(cls) == IF cls = "Ubuntu20AlpineHost" THEN Some("ubuntu") ELSE None
ClassCommand(cls) == IF cls = "Ubuntu20AlpineHost" THEN Some("keepalive") ELSE None

\* Topology.__init__ defaults
host_type == "default"
switch_type == "default"
controller_type == "default"
\* Topology(): the base class with every type left at its default; a type is
\* <<"str", type name>> or <<"cls", class>>
DefaultConfig ==
    [cls |-> TOPOLOGY_TYPES["default"], host_type |-> <<"str", host_type>>,
     switch_type |-> <<"str", switch_type>>, controller_type |-> <<"str", controller_type>>,
     link_type |-> <<"str", "default">>]

\* ---------------------------------------------------------------- Node
\* Node.__init__: one Interface per index 0..num_interfaces-1
Node_init(cls, num_interfaces) ==
    [cls |-> cls,
     interfaces |-> [k \in {IntKey(i) : i \in 0..(num_interfaces - 1)} |-> IfaceObj],
     image |-> None, command |-> None, container_id |-> None]

\* Python truthiness of an optional string
Truthy(s) == s # None /\ s # Some("")

\* DockerNode.__init__: image or self.image, command or self.command
DockerNode_init(cls, num_interfaces, image, command) ==
    [Node_init(cls, num_interfaces) EXCEPT
        !.image = IF Truthy(image) THEN image ELSE ClassImage(cls),
        !.command = IF Truthy(command) THEN command ELSE ClassCommand(cls),
        !.container_id = None]

\* the outcome of one call on a node: the node afterwards, the runtime afterwards,
\* the runtime calls made, and the exception raised (OK when none)
Outcome(node, dk, evs, err) == [node |-> node, docker |-> dk, calls |-> evs, err |-> err]

DockerNode_start_unchecked(node, dk, me, fails) ==
    IF fails
    THEN Outcome(node, dk, <<Event("run", me, 0)>>, "ExecutionFailure")
    ELSE LET cid == Len(dk) + 1 IN
         Outcome([node EXCEPT !.container_id = Some(cid)],
                 Append(dk, "running"),
                 <<Event("run", me, cid)>>, OK)

\* DockerNode.start, called by the entity `me`; `fails` says whether the
\* container runtime fails this call
DockerNode_start(node, dk, me, fails) ==
    IF ~Truthy(node.image) \/ ~Truthy(node.command)
    THEN Outcome(node, dk, <<>>, "ValueError")
    ELSE IF fails
    THEN Outcome(node, dk, <<Event("run", me, 0)>>, "ExecutionFailure")
    ELSE LET cid == Len(dk) + 1 IN
         Outcome([node EXCEPT !.container_id = Some(cid)],
                 Append(dk, "running"),
                 <<Event("run", me, cid)>>, OK)

DockerNode_stop_newest(node, dk, me, fails) ==
    IF node.container_id = None
    THEN Outcome(node, dk, <<Event("get", me, 0)>>, "NullResource")
    ELSE LET cid == Len(dk) IN
         IF fails
         THEN Outcome(node, dk, <<Event("get", me, cid)>>, "ExecutionFailure")
         ELSE Outcome(node, [dk EXCEPT ![cid] = "exited"],
                      <<Event("get", me, cid), Event("cstop", me, cid)>>, OK)

\* DockerNode.stop: containers.get(self.container_id), then container.stop();
\* the runtime rejects a get without an id
DockerNode_stop(node, dk, me, fails) ==
    IF node.container_id = None
    THEN Outcome(node, dk, <<Event("get", me, 0)>>, "NullResource")
    ELSE LET cid == node.container_id[1] IN
         IF fails
         THEN Outcome(node, dk, <<Event("get", me, cid)>>, "ExecutionFailure")
         ELSE Outcome(node, [dk EXCEPT ![cid] = "exited"],
                      <<Event("get", me, cid), Event("cstop", me, cid)>>, OK)

\* start / stop / async_start / async_stop as dispatched on the node's class
Node_start(node, dk, me, fails) ==
    IF node.cls \in DockerClasses THEN DockerNode_start(node, dk, me, fails)
    ELSE Outcome(node, dk, <<>>, "NotImplementedError")
Node_stop(node, dk, me, fails) ==
    IF node.cls \in DockerClasses THEN DockerNode_stop(node, dk, me, fails)
    ELSE Outcome(node, dk, <<>>, "NotImplementedError")
Node_async_start(node, dk, me, fails) ==
    IF node.cls \in DockerClasses THEN DockerNode_start(node, dk, me, fails)
    ELSE Outcome(node, dk, <<>>, "NotImplementedError")
Node_async_stop(node, dk, me, fails) ==
    IF node.cls \in DockerClasses THEN DockerNode_stop(node, dk, me, fails)
    ELSE Outcome(node, dk, <<>>, "NotImplementedError")

\* the lifecycle state of a node, read off its handle and the runtime
NodeState(node, dk) ==
    IF node.container_id = None THEN "Created"
    ELSE IF dk[node.container_id[1]] = "running" THEN "Running" ELSE "Stopped"

\* ---------------------------------------------------------------- Link
\* link_lib.Link: built from add_link's keyword arguments only
Link_init(src, dst) == [cls |-> "Link", src |-> src, dst |-> dst, state |-> "Created"]
Link_start(link) == [link EXCEPT !.state = "Running"]
Link_stop(link) == [link EXCEPT !.state = "Stopped"]

\* ---------------------------------------------------------------- addresses
\* mirror_net Node: every node owns an iterator over the hosts of its network.
\* An address is AddrBits wide (32 in IPv4) and a prefix is 0..AddrBits long.
AddrBits == 3
NetSize(prefix) == 2 ^ (AddrBits - prefix)
\* ipaddress.ip_network is strict: a base with host bits set is a ValueError
HasHostBits(base, prefix) == base % NetSize(prefix) # 0
broadcast_address(base, prefix) == base + NetSize(prefix) - 1
FromTo(a, b) == [i \in 1..(b - a + 1) |-> a + i - 1]

\* the interpreters: up to Python 3.8 hosts() of a full-length prefix is an
\* empty generator, from 3.9 it is a list holding the one address
Builds == {"generator", "list"}

network_hosts_unexcluded(base, prefix, build) ==
    IF prefix = AddrBits
    THEN IF build = "list" THEN [kind |-> "list", items |-> <<base>>]
         ELSE [kind |-> "generator", items |-> <<>>]
    ELSE IF prefix = AddrBits - 1
    THEN [kind |-> "generator", items |-> FromTo(base, broadcast_address(base, prefix))]
    ELSE [kind |-> "generator",
          items |-> FromTo(base, broadcast_address(base, prefix) - 1)]

\* ipaddress.ip_network(...).hosts(): the addresses between the network and
\* the broadcast address; both addresses of a network one bit short of the
\* full length; see Builds for the full length
network_hosts(base, prefix, build) ==
    IF prefix = AddrBits
    THEN IF build = "list" THEN [kind |-> "list", items |-> <<base>>]
         ELSE [kind |-> "generator", items |-> <<>>]
    ELSE IF prefix = AddrBits - 1
    THEN [kind |-> "generator", items |-> FromTo(base, broadcast_address(base, prefix))]
    ELSE [kind |-> "generator",
          items |-> FromTo(base + 1, broadcast_address(base, prefix) - 1)]

\* Node.generate_ip: next(self.available_addresses); next() of a list is a
\* TypeError, of a finished generator StopIteration. `handed` is not an
\* attribute of Node: it keeps the addresses returned, for the properties.
generate_ip(node) ==
    IF node.available_addresses.kind = "list" THEN [err |-> "TypeError", val |-> 0, node |-> node]
    ELSE IF node.available_addresses.items = <<>>
    THEN [err |-> "StopIteration", val |-> 0, node |-> node]
    ELSE LET address == Head(node.available_addresses.items)
         IN [err |-> OK, val |-> address,
             node |-> [node EXCEPT !.available_addresses.items = Tail(@),
                                   !.handed = Append(@, address)]]

\* Node.add_interface: an address is generated unless one is given, then the
\* veth interface is created; `created` lists the interfaces created
add_interface(node, index, ip_address) ==
    LET got == IF ip_address = None THEN generate_ip(node)
               ELSE [err |-> OK, val |-> ip_address[1], node |-> node]
    IN IF got.err # OK THEN [err |-> got.err, node |-> node]
       ELSE [err |-> OK,
             node |-> [got.node EXCEPT
                          !.created = Append(@, [index |-> index, address |-> got.val])]]

\* Node.add_interface when self.network.interfaces.create raises: the address
\* was generated before, and nothing is created
add_interface_rejected(node, index, ip_address) ==
    LET got == IF ip_address = None THEN generate_ip(node)
               ELSE [err |-> OK, val |-> ip_address[1], node |-> node]
    IN IF got.err # OK THEN [err |-> got.err, node |-> node]
       ELSE [err |-> "CreateError", node |-> got.node]

\* the dict comprehension of Node.__init__: add_interface(index) for index in
\* range(num_interfaces), ended by the first exception
RECURSIVE AddInterfaces(_, _, _)
AddInterfaces(node, index, num_interfaces) ==
    IF index >= num_interfaces THEN [err |-> OK, node |-> node]
    ELSE LET out == add_interface(node, index, None)
         IN IF out.err # OK THEN out
            ELSE AddInterfaces(out.node, index + 1, num_interfaces)

\* mirror_net Node.__init__(num_interfaces, base_ip_address, subnet_cidr);
\* interfaces stays None when __init__ raises before assigning it
MirrorNode_init(num_interfaces, base, prefix, build) ==
    LET raw == [base |-> base, prefix |-> prefix,
                available_addresses |-> network_hosts(base, prefix, build),
                handed |-> <<>>, created |-> <<>>, interfaces |-> None]
        out == AddInterfaces(raw, 0, num_interfaces)
    IN IF out.err # OK THEN out
       ELSE [err |-> OK,
             node |-> [out.node EXCEPT !.interfaces = Some(0..(num_interfaces - 1))]]

NodeIds == {1, 2}

\* ---------------------------------------------------------------- Topology
\* the state a Topology call works on and what it has done so far
Ctx(h, s, l, dk) ==
    [hosts |-> h, switches |-> s, links |-> l, docker |-> dk, calls |-> <<>>, err |-> OK,
     config |-> config]
Raise(ctx, e) == [ctx EXCEPT !.err = e]

\* getattr(self, node_type)
Coll(ctx, coll) ==
    CASE coll = "hosts" -> ctx.hosts
      [] coll = "switches" -> ctx.switches
      [] coll = "links" -> ctx.links
SetColl(ctx, coll, d) ==
    CASE coll = "hosts" -> [ctx EXCEPT !.hosts = d]
      [] coll = "switches" -> [ctx EXCEPT !.switches = d]
      [] coll = "links" -> [ctx EXCEPT !.links = d]

\* self.<coll>.items(): the entries of one collection, in dict order
Items(coll, d) == [i \in 1..Len(d) |-> [coll |-> coll, name |-> d[i].name]]
Range(q) == {q[i] : i \in 1..Len(q)}

StartSwitchesFirst(h, s, l) ==
    Items("switches", s) \o Items("hosts", h) \o Items("links", l)
\* Topology.start / async_start: hosts, then switches, then links
StartOrder(h, s, l) == Items("hosts", h) \o Items("switches", s) \o Items("links", l)
StopInReverse(h, s, l) ==
    Items("links", l) \o Items("switches", s) \o Items("hosts", h)
\* Topology.stop / async_stop: hosts, then switches, then links
StopOrder(h, s, l) == Items("hosts", h) \o Items("switches", s) \o Items("links", l)

\* one iteration of a start / stop loop: call `method` on the entity; `bad`
\* holds the entities for which the container runtime fails during this call
CallOne(ctx, item, method, bad) ==
    LET ent == Get(Coll(ctx, item.coll), item.name)
        ev == IF method \in {"start", "async_start"} THEN "start" ELSE "stop"
        f == item \in bad
    IN  IF item.coll = "links"
        THEN LET link == IF ev = "start" THEN Link_start(ent) ELSE Link_stop(ent)
             IN [SetColl(ctx, "links", DictSet(ctx.links, item.name, link)) EXCEPT
                    !.calls = Append(@, Event(ev, item, 0))]
        ELSE LET out == CASE method = "start" -> Node_start(ent, ctx.docker, item, f)
                          [] method = "async_start" -> Node_async_start(ent, ctx.docker, item, f)
                          [] method = "stop" -> Node_stop(ent, ctx.docker, item, f)
                          [] method = "async_stop" -> Node_async_stop(ent, ctx.docker, item, f)
             IN [SetColl(ctx, item.coll, DictSet(Coll(ctx, item.coll), item.name, out.node))
                    EXCEPT !.docker = out.docker,
                           !.calls = Append(@, Event(ev, item, 0)) \o out.calls,
                           !.err = out.err]

\* the for loops of start / stop: an exception ends the call
RECURSIVE CallAll(_, _, _, _, _)
CallAll(ctx, items, i, method, bad) ==
    IF i > Len(items) \/ ctx.err # OK THEN ctx
    ELSE CallAll(CallOne(ctx, items[i], method, bad), items, i + 1, method, bad)

Topology_start_rolled_back(ctx, bad) ==
    LET out == CallAll(ctx, StartOrder(ctx.hosts, ctx.switches, ctx.links), 1, "start", bad)
    IN IF out.err # OK THEN [ctx EXCEPT !.err = out.err, !.calls = out.calls] ELSE out

Topology_start(ctx, bad) ==
    CallAll(ctx, StartOrder(ctx.hosts, ctx.switches, ctx.links), 1, "start", bad)
Topology_async_start(ctx, bad) ==
    CallAll(ctx, StartOrder(ctx.hosts, ctx.switches, ctx.links), 1, "async_start", bad)
Topology_stop(ctx, bad) ==
    CallAll(ctx, StopOrder(ctx.hosts, ctx.switches, ctx.links), 1, "stop", bad)
Topology_async_stop(ctx, bad) ==
    CallAll(ctx, StopOrder(ctx.hosts, ctx.switches, ctx.links), 1, "async_stop", bad)

\* Topology.get_node_cls: HOST_TYPES.get(name, SWITCH_TYPES.get(name))
get_node_cls(name) ==
    IF name \in DOMAIN HOST_TYPES THEN Some(HOST_TYPES[name])
    ELSE IF name \in DOMAIN SWITCH_TYPES THEN Some(SWITCH_TYPES[name])
    ELSE None

\* Topology.get_link_cls: LINK_TYPES.get(name); name is None when omitted
get_link_cls(name) ==
    IF name # None /\ name[1] \in DOMAIN LINK_TYPES THEN Some(LINK_TYPES[name[1]])
    ELSE None

\* node_cls(**kwargs)
Construct(cls, kw) ==
    IF cls \in DockerClasses
    THEN DockerNode_init(cls, kw.num_interfaces, kw.image, kw.command)
    ELSE Node_init(cls, kw.num_interfaces)

AddNodeTypesWithLinks == {"controllers", "hosts", "links", "switches"}

\* the node_type values add_node and remove_node accept
AddNodeTypes == {"controllers", "hosts", "switches"}
RemoveNodeTypes == {"hosts", "links", "switches"}

\* Topology.add_node; node_cls is None, <<"str", type name>> or <<"cls", class>>
add_node(ctx, name, node_type, node_cls, kw, bad) ==
    IF node_type \notin AddNodeTypes THEN Raise(ctx, "ValueError")
    ELSE LET given == IF node_cls # None THEN node_cls
                      ELSE IF node_type = "hosts" THEN ctx.config.host_type
                      ELSE IF node_type = "switches" THEN ctx.config.switch_type
                      ELSE ctx.config.controller_type
             cls == IF given[1] = "str" THEN get_node_cls(given[2]) ELSE Some(given[2])
         IN  IF cls = None THEN Raise(ctx, "ValueError")
             ELSE IF kw.interface_type \notin INTERFACE_TYPES THEN Raise(ctx, "ValueError")
             ELSE IF node_type = "controllers" THEN Raise(ctx, "AttributeError")
             ELSE LET node == Construct(cls[1], kw)
                      stored == SetColl(ctx, node_type,
                                        DictSet(Coll(ctx, node_type), name, node))
                  IN CallOne(stored, [coll |-> node_type, name |-> name], "start", bad)

\* Topology.async_add_node: add_node with await node.async_start()
async_add_node(ctx, name, node_type, node_cls, kw, bad) ==
    IF node_type \notin AddNodeTypes THEN Raise(ctx, "ValueError")
    ELSE LET given == IF node_cls # None THEN node_cls
                      ELSE IF node_type = "hosts" THEN ctx.config.host_type
                      ELSE IF node_type = "switches" THEN ctx.config.switch_type
                      ELSE ctx.config.controller_type
             cls == IF given[1] = "str" THEN get_node_cls(given[2]) ELSE Some(given[2])
         IN  IF cls = None THEN Raise(ctx, "ValueError")
             ELSE IF kw.interface_type \notin INTERFACE_TYPES THEN Raise(ctx, "ValueError")
             ELSE IF node_type = "controllers" THEN Raise(ctx, "AttributeError")
             ELSE LET node == Construct(cls[1], kw)
                      stored == SetColl(ctx, node_type,
                                        DictSet(Coll(ctx, node_type), name, node))
                  IN CallOne(stored, [coll |-> node_type, name |-> name], "async_start", bad)

\* Topology.async_add_link: async_add_node(name, 'links', link_type, **kwargs);
\* the endpoints can only arrive among the keyword arguments
async_add_link(ctx, name, link_type, kw) ==
    async_add_node(ctx, name, "links",
                   IF link_type = None THEN None ELSE <<"str", link_type[1]>>, kw, {})

remove_node_without_stop(ctx, name, node_type, bad) ==
    IF node_type \notin RemoveNodeTypes THEN Raise(ctx, "ValueError")
    ELSE IF ~Has(Coll(ctx, node_type), name) THEN Raise(ctx, "KeyError")
    ELSE SetColl(ctx, node_type, DictPop(Coll(ctx, node_type), name))

remove_node_stop_first(ctx, name, node_type, bad) ==
    IF node_type \notin RemoveNodeTypes THEN Raise(ctx, "ValueError")
    ELSE IF ~Has(Coll(ctx, node_type), name) THEN Raise(ctx, "KeyError")
    ELSE LET called == CallOne(ctx, [coll |-> node_type, name |-> name], "stop", bad)
         IN IF called.err # OK THEN called
            ELSE SetColl(called, node_type, DictPop(Coll(called, node_type), name))

\* Topology.remove_node: the entry is popped and the popped node stopped; the
\* entry is gone whatever stop does
remove_node(ctx, name, node_type, bad) ==
    IF node_type \notin RemoveNodeTypes THEN Raise(ctx, "ValueError")
    ELSE IF ~Has(Coll(ctx, node_type), name) THEN Raise(ctx, "KeyError")
    ELSE LET called == CallOne(ctx, [coll |-> node_type, name |-> name], "stop", bad)
         IN SetColl(called, node_type, DictPop(Coll(called, node_type), name))

\* str.rsplit('.', 1)
LastDot(s) ==
    IF \E i \in 1..Len(s) : s[i] = DOT
    THEN CHOOSE i \in 1..Len(s) : s[i] = DOT /\ \A j \in (i + 1)..Len(s) : s[j] # DOT
    ELSE 0
rsplit(s) ==
    LET i == LastDot(s)
    IN IF i = 0 THEN <<s>> ELSE <<SubSeq(s, 1, i - 1), SubSeq(s, i + 1, Len(s))>>

NodeColl_switches_first(ctx, name) ==
    IF Has(ctx.switches, name) THEN "switches"
    ELSE IF Has(ctx.hosts, name) THEN "hosts"
    ELSE "none"

\* Topology.get_node_by_name: self.hosts.get(name, self.switches.get(name))
NodeColl(ctx, name) ==
    IF Has(ctx.hosts, name) THEN "hosts"
    ELSE IF Has(ctx.switches, name) THEN "switches"
    ELSE "none"
get_node_by_name(ctx, name) == Get(Coll(ctx, NodeColl(ctx, name)), name)

\* node.interfaces[key] = val on the node get_node_by_name(name) returns
SetIface(ctx, name, key, val) ==
    LET coll == NodeColl(ctx, name)
        node == get_node_by_name(ctx, name)
        ifs == [k \in (DOMAIN node.interfaces) \cup {key} |->
                    IF k = key THEN val ELSE node.interfaces[k]]
    IN SetColl(ctx, coll, DictSet(Coll(ctx, coll), name, [node EXCEPT !.interfaces = ifs]))

\* Topology.add_link; link_type is None when omitted, kw_ends says whether the
\* caller passes src=<source node name>, dst=<destination node name> as keyword
\* arguments for the Link. The entry's `wired` field is not an attribute of the
\* Link object: it keeps the endpoints the call was given, for the properties.
add_link(ctx, name, src_port, dst_port, link_type, kw_ends) ==
    LET sp == rsplit(src_port)
        dp == rsplit(dst_port)
    IN  IF Len(sp) # 2 THEN Raise(ctx, "ValueError")
        ELSE IF NodeColl(ctx, sp[1]) = "none" THEN Raise(ctx, "KeyError")
        ELSE IF Len(dp) # 2 THEN Raise(ctx, "ValueError")
        ELSE IF NodeColl(ctx, dp[1]) = "none" THEN Raise(ctx, "KeyError")
        ELSE LET w1 == SetIface(ctx, sp[1], StrKey(sp[2]), StrVal(dp[2]))
                 w2 == SetIface(w1, dp[1], StrKey(dp[2]), StrVal(sp[2]))
                 link == [Link_init(IF kw_ends THEN Some(sp[1]) ELSE None,
                                    IF kw_ends THEN Some(dp[1]) ELSE None)
                            EXCEPT !.cls = get_link_cls(link_type)[1]]
             IN IF get_link_cls(link_type) = None THEN Raise(w2, "ValueError")
                ELSE [w2 EXCEPT !.links = DictSet(@, name,
                        [cls |-> link.cls, src |-> link.src, dst |-> link.dst,
                         state |-> link.state,
                         wired |-> [src |-> sp[1], sport |-> sp[2],
                                    dst |-> dp[1], dport |-> dp[2]]])]

\* Topology.remove_link; `fails` says whether link.stop() raises
remove_link(ctx, name, fails) ==
    IF ~Has(ctx.links, name) THEN Raise(ctx, "KeyError")
    ELSE LET link == Get(ctx.links, name)
             popped == [ctx EXCEPT !.links = DictPop(@, name),
                                   !.calls = Append(@, Event("stop",
                                                [coll |-> "links", name |-> name], 0))]
         IN  IF fails THEN Raise(popped, "ExecutionFailure")
             ELSE IF link.src = None \/ NodeColl(popped, link.src[1]) = "none"
             THEN Raise(popped, "KeyError")
             ELSE IF link.dst = None \/ NodeColl(popped, link.dst[1]) = "none"
             THEN Raise(popped, "KeyError")
             ELSE SetIface(SetIface(popped, link.src[1], ObjKey, NoneVal),
                           link.dst[1], ObjKey, NoneVal)

\* ---------------------------------------------------------------- inputs
\* keyword arguments of a node constructor
DefaultNumInterfaces == 1
DefaultKw == [image |-> None, command |-> None, interface_type |-> "default",
              num_interfaces |-> DefaultNumInterfaces]
ExecKw == [DefaultKw EXCEPT !.image = Some("img"), !.command = Some("cmd")]
EmptyKw == [DefaultKw EXCEPT !.image = Some(""), !.command = Some("")]
BadIfaceKw == [DefaultKw EXCEPT !.interface_type = "bogus"]
LinkTypeArgs == {None, Some("default"), Some("bogus")}

\* ---------------------------------------------------------------- build
\* Topology.add_host / add_switch: add_node(name, 'hosts' / 'switches', type);
\* the type is None when omitted
add_host(ctx, name, type, kw, bad) == add_node(ctx, name, "hosts", type, kw, bad)
add_switch(ctx, name, type, kw, bad) == add_node(ctx, name, "switches", type, kw, bad)

\* the names LinearTopology.build uses
H1 == <<"h1">>
H2 == <<"h2">>
S1 == <<"s1">>
S2 == <<"s2">>

\* the statements of LinearTopology.build, in order: two hosts, two switches
\* and three links, each added with no type and no keyword argument
LinearStatements ==
    <<[op |-> "add_host", name |-> H1, src |-> <<>>, dst |-> <<>>],
      [op |-> "add_host", name |-> H2, src |-> <<>>, dst |-> <<>>],
      [op |-> "add_switch", name |-> S1, src |-> <<>>, dst |-> <<>>],
      [op |-> "add_switch", name |-> S2, src |-> <<>>, dst |-> <<>>],
      [op |-> "add_link", name |-> <<"h1 to s1">>,
       src |-> <<"h1", DOT, "0">>, dst |-> <<"s1", DOT, "0">>],
      [op |-> "add_link", name |-> <<"h2 to s2">>,
       src |-> <<"h2", DOT, "0">>, dst |-> <<"s2", DOT, "0">>],
      [op |-> "add_link", name |-> <<"s1-s2 trunc">>,
       src |-> <<"s1", DOT, "1">>, dst |-> <<"s2", DOT, "1">>]>>

Statement(ctx, st, bad) ==
    CASE st.op = "add_host" -> add_host(ctx, st.name, None, DefaultKw, bad)
      [] st.op = "add_switch" -> add_switch(ctx, st.name, None, DefaultKw, bad)
      [] st.op = "add_link" -> add_link(ctx, st.name, st.src, st.dst, None, FALSE)

\* LinearTopology.build: the statements one after the other, ended by the
\* first exception
RECURSIVE LinearTopology_build(_, _, _)
LinearTopology_build(ctx, i, bad) ==
    IF i > Len(LinearStatements) \/ ctx.err # OK THEN ctx
    ELSE LinearTopology_build(Statement(ctx, LinearStatements[i], bad), i + 1, bad)

\* topology.build(): Topology.build does nothing, LinearTopology overrides it
Topology_build(ctx, bad) ==
    IF ctx.config.cls = "LinearTopology" THEN LinearTopology_build(ctx, 1, bad) ELSE ctx

\* Topology.__enter__ and Mininet3.start: self.build(), then self.start()
Topology_enter(ctx, bad) ==
    LET built == Topology_build(ctx, bad)
    IN IF built.err # OK THEN built ELSE Topology_start(built, bad)

\* (node_cls, kwargs) arguments of add_node: the default type, a container
\* node with and without its image and command, and an unknown type name or
\* interface type
DefaultNode == {<<None, DefaultKw>>, <<<<"str", "default">>, DefaultKw>>}
ContainerNode == {<<<<"str", "docker">>, ExecKw>>}
BrokenNode == {<<<<"str", "docker">>, EmptyKw>>, <<<<"str", "docker">>, DefaultKw>>}
UnknownNode == {<<<<"str", "bogus">>, DefaultKw>>, <<None, BadIfaceKw>>}

\* (name, node_type) arguments of add_node / remove_node
PlainTargets == {<<<<"b">>, "hosts">>}
TopoTargets == {<<<<"a">>, "hosts">>, <<<<"b">>, "hosts">>, <<<<"s">>, "switches">>}
NodeTargets ==
    {<<<<"a">>, "hosts">>, <<<<"s">>, "switches">>, <<<<"a">>, "controllers">>,
     <<<<"l">>, "links">>}
\* in the wiring runs a host and a switch may share a name
WireTargets ==
    {<<<<"a">>, "hosts">>, <<<<"b">>, "hosts">>, <<<<"a">>, "switches">>,
     <<<<"l">>, "links">>}

\* the nodes held by the topology
Nodes(h, s) == Range(Items("hosts", h)) \cup Range(Items("switches", s))

\* the container runtime fails for no entity or for one: a call ends at its
\* first exception, so later failures of the same call are never observed
FailureSets(h, s) == {{}} \cup {{x} : x \in Nodes(h, s)}

\* ---------------------------------------------------------------- steps
Op(op, coll, name) == [op |-> op, coll |-> coll, name |-> name]

Here == Ctx(hosts, switches, links, docker)

\* a call returns (or raises) having changed the topology to ctx
Commit(ctx, op) ==
    /\ Len(ctx.docker) <= MaxContainers
    /\ hosts' = ctx.hosts
    /\ switches' = ctx.switches
    /\ links' = ctx.links
    /\ docker' = ctx.docker
    /\ lastOp' = op
    /\ result' = ctx.err
    /\ calls' = ctx.calls
    /\ config' = config
    /\ tables' = tables
    /\ returned' = None
    /\ mirror' = mirror

Init ==
    /\ hosts = <<>>
    /\ switches = <<>>
    /\ links = <<>>
    /\ docker = <<>>
    /\ lastOp = Op("init", "", <<>>)
    /\ result = OK
    /\ calls = <<>>
    /\ config = DefaultConfig
    /\ tables = BuiltinTables
    /\ returned = None
    /\ mirror = [id \in NodeIds |-> None]

\* topology.add_node(name, node_type, node_cls, **kw)
AddNodeOf(targets, args) ==
    \E t \in targets, arg \in args, fails \in BOOLEAN :
        Commit(add_node(Here, t[1], t[2], arg[1], arg[2],
                        IF fails THEN {[coll |-> t[2], name |-> t[1]]} ELSE {}),
               Op("add_node", t[2], t[1]))

\* topology.remove_node(name, node_type)
RemoveNodeOf(targets) ==
    \E t \in targets, fails \in BOOLEAN :
        Commit(remove_node(Here, t[1], t[2],
                           IF fails THEN {[coll |-> t[2], name |-> t[1]]} ELSE {}),
               Op("remove_node", t[2], t[1]))

\* topology.add_link(name, src_port, dst_port, link_type, **kw)
AddLinkOf(srcs, dsts, link_types, ends) ==
    \E name \in LinkNames, src_port \in srcs, dst_port \in dsts,
       link_type \in link_types, kw_ends \in ends :
        Commit(add_link(Here, name, src_port, dst_port, link_type, kw_ends),
               Op("add_link", "links", name))

AddNode ==
    \/ AddNodeOf(TopoTargets, ContainerNode)
    \/ AddNodeOf(PlainTargets, {<<None, DefaultKw>>})
AddLink == AddLinkOf({<<"a", DOT, "0">>}, {<<"s", DOT, "0">>}, {Some("default")}, {FALSE})

NodeAddNode ==
    AddNodeOf(NodeTargets, DefaultNode \cup ContainerNode \cup BrokenNode \cup UnknownNode)
NodeRemoveNode == RemoveNodeOf(NodeTargets)

WireAddNode == AddNodeOf(WireTargets, DefaultNode)
WireRemoveNode == RemoveNodeOf(WireTargets)
WireAddLink == AddLinkOf(EndpointStrings, EndpointStrings, LinkTypeArgs, BOOLEAN)
WireAddLinkPastPort ==
    AddLinkOf(PastPortStrings, {<<"b", DOT, "0">>}, {Some("default")}, {TRUE})

\* await topology.async_add_link(name, 'default', src_port='a.0', dst_port='b.0')
AsyncLinkSrc == <<"a", DOT, "0">>
AsyncLinkDst == <<"b", DOT, "0">>
AsyncLinkType == Some("default")
AsyncAddLink ==
    \E name \in LinkNames :
        Commit(async_add_link(Here, name, AsyncLinkType, DefaultKw),
               Op("async_add_link", "links", name))

RemoveLink ==
    \E name \in LinkNames, fails \in BOOLEAN :
        Commit(remove_link(Here, name, fails), Op("remove_link", "links", name))

\* topology.add_link(name, "A.0", "B.0", ...) succeeds and is followed at once
\* by topology.remove_link(name)
RoundTrip ==
    \E name \in LinkNames, A \in NodeNames, B \in NodeNames,
       link_type \in LinkTypeArgs, kw_ends \in BOOLEAN :
        LET added == add_link(Here, name, A \o <<DOT, "0">>, B \o <<DOT, "0">>,
                              link_type, kw_ends)
        IN /\ A # B
           /\ added.err = OK
           /\ Commit(remove_link([added EXCEPT !.calls = <<>>], name, FALSE),
                     Op("round_trip", "links", name))

Start ==
    \E bad \in FailureSets(hosts, switches) :
        Commit(Topology_start(Here, bad), Op("start", "", <<>>))

AsyncStart ==
    \E bad \in FailureSets(hosts, switches) :
        Commit(Topology_async_start(Here, bad), Op("async_start", "", <<>>))

Stop ==
    \E bad \in FailureSets(hosts, switches) :
        Commit(Topology_stop(Here, bad), Op("stop", "", <<>>))

AsyncStop ==
    \E bad \in FailureSets(hosts, switches) :
        Commit(Topology_async_stop(Here, bad), Op("async_stop", "", <<>>))

\* node.start() / node.stop() called directly on a node of the topology
NodeStart ==
    \E me \in Nodes(hosts, switches), fails \in BOOLEAN :
        Commit(CallOne(Here, me, "start", IF fails THEN {me} ELSE {}),
               Op("node_start", me.coll, me.name))

NodeStop ==
    \E me \in Nodes(hosts, switches), fails \in BOOLEAN :
        Commit(CallOne(Here, me, "stop", IF fails THEN {me} ELSE {}),
               Op("node_stop", me.coll, me.name))

\* await node.async_start() / node.async_stop() on a node of the topology
NodeAsyncStart ==
    \E me \in Nodes(hosts, switches), fails \in BOOLEAN :
        Commit(CallOne(Here, me, "async_start", IF fails THEN {me} ELSE {}),
               Op("node_async_start", me.coll, me.name))

NodeAsyncStop ==
    \E me \in Nodes(hosts, switches), fails \in BOOLEAN :
        Commit(CallOne(Here, me, "async_stop", IF fails THEN {me} ELSE {}),
               Op("node_async_stop", me.coll, me.name))

\* Topology(...) / LinearTopology(...) as constructed for the build runs: the
\* host type is a registered name or the custom class Ubuntu20AlpineHost
BuildHostTypes == {<<"str", "default">>, <<"str", "docker">>, <<"cls", "Ubuntu20AlpineHost">>}
BuildConfigs ==
    {[DefaultConfig EXCEPT !.cls = TOPOLOGY_TYPES[t], !.host_type = h] :
        t \in DOMAIN TOPOLOGY_TYPES, h \in BuildHostTypes}

BuildInit ==
    /\ hosts = <<>>
    /\ switches = <<>>
    /\ links = <<>>
    /\ docker = <<>>
    /\ lastOp = Op("init", "", <<>>)
    /\ result = OK
    /\ calls = <<>>
    /\ config \in BuildConfigs
    /\ tables = BuiltinTables
    /\ returned = None
    /\ mirror = [id \in NodeIds |-> None]

\* the entities build adds and those the topology holds, for the runtime's
\* failures
BuildNodes ==
    {[coll |-> "hosts", name |-> H1], [coll |-> "hosts", name |-> H2],
     [coll |-> "switches", name |-> S1], [coll |-> "switches", name |-> S2]}
BuildFailureSets == {{}} \cup {{x} : x \in BuildNodes \cup Nodes(hosts, switches)}

\* topology.build()
Build ==
    \E bad \in BuildFailureSets :
        Commit(Topology_build(Here, bad), Op("build", "", <<>>))

\* with topology: ... / Mininet3.start()
Enter ==
    \E bad \in BuildFailureSets :
        Commit(Topology_enter(Here, bad), Op("enter", "", <<>>))

\* topology.add_host(name) / topology.add_switch(name) by the caller
BuildAddHost ==
    \E name \in {H1, <<"a">>}, fails \in BOOLEAN :
        Commit(add_host(Here, name, None, DefaultKw,
                        IF fails THEN {[coll |-> "hosts", name |-> name]} ELSE {}),
               Op("add_host", "hosts", name))
\* topology.start() / topology.stop() on a topology of the build runs
BuildStart ==
    \E bad \in BuildFailureSets :
        Commit(Topology_start(Here, bad), Op("start", "", <<>>))
BuildStop ==
    \E bad \in BuildFailureSets :
        Commit(Topology_stop(Here, bad), Op("stop", "", <<>>))

\* Topology.__aenter__: async_build (which calls build), then async_start
Topology_aenter(ctx, bad) ==
    LET built == Topology_build(ctx, bad)
    IN IF built.err # OK THEN built ELSE Topology_async_start(built, bad)

\* the with statement: when __enter__ raises, neither the body nor __exit__
\* runs; otherwise __exit__ runs after the body, its exception replaces the
\* body's, and it returns None, so an exception of the body propagates
WithBlock(entered, stopped, body_raises) ==
    IF entered.err # OK THEN entered
    ELSE IF stopped.err # OK THEN stopped
    ELSE IF body_raises THEN Raise(stopped, "BodyError")
    ELSE stopped

\* the statement ends with the topology ctx; `bound` is what `as` was given
Leave(ctx, op, bound) ==
    /\ Len(ctx.docker) <= MaxContainers
    /\ hosts' = ctx.hosts
    /\ switches' = ctx.switches
    /\ links' = ctx.links
    /\ docker' = ctx.docker
    /\ lastOp' = op
    /\ result' = ctx.err
    /\ calls' = ctx.calls
    /\ returned' = bound
    /\ UNCHANGED <<config, tables, mirror>>

\* with topology as t: body
With ==
    \E bad \in BuildFailureSets, body_raises \in BOOLEAN :
        LET entered == Topology_enter(Here, bad)
        IN \E late \in {{}} \cup {{x} : x \in Nodes(entered.hosts, entered.switches)} :
              Leave(WithBlock(entered, Topology_stop(entered, late), body_raises),
                    Op("with", "", <<>>),
                    IF entered.err = OK THEN Some("self") ELSE None)

\* async with topology as t: body; __aenter__ has no return statement
AsyncWith ==
    \E bad \in BuildFailureSets, body_raises \in BOOLEAN :
        LET entered == Topology_aenter(Here, bad)
        IN \E late \in {{}} \cup {{x} : x \in Nodes(entered.hosts, entered.switches)} :
              Leave(WithBlock(entered, Topology_async_stop(entered, late), body_raises),
                    Op("async_with", "", <<>>), None)

\* a lookup returns val (or raises) and changes nothing
Lookup(out, op) ==
    /\ lastOp' = op
    /\ result' = out.err
    /\ returned' = out.val
    /\ calls' = <<>>
    /\ UNCHANGED <<hosts, switches, links, docker, config, tables, mirror>>

\* the names looked up, and the class names of the custom modules: two modules
\* may define a class of the same name
TypeNames == {"default", "Custom", "nonexistent"}
NodeTypeArgs == NODES_BY_TYPE \cup {"topology", "bogus"}
NoSubclasses == [n \in {} |-> ""]
SubclassDicts == {NoSubclasses, [Custom |-> "custom.a.Custom"], [Custom |-> "custom.b.Custom"]}

\* nodes.get_cls_by_name(name, node_type)
GetClsByName ==
    \E name \in TypeNames, node_type \in NodeTypeArgs :
        Lookup(get_cls_by_name(tables, name, node_type),
               Op("get_cls_by_name", node_type, name))

\* get_topology_by_name(topology_name)
GetTopologyByName ==
    \E name \in TypeNames :
        Lookup(get_topology_by_name(tables, name),
               Op("get_topology_by_name", "topology", name))

\* load_custom_assets(asset_paths): the modules are imported, their classes
\* register themselves in subclasses, and the dicts are updated; lastOp keeps
\* the subclasses dicts in its name field
LoadCustomAssets ==
    \E subclasses \in [LoadedKinds -> SubclassDicts] :
        /\ tables' = load_custom_assets(tables, subclasses)
        /\ lastOp' = Op("load_custom_assets", "", subclasses)
        /\ result' = OK
        /\ returned' = None
        /\ calls' = <<>>
        /\ UNCHANGED <<hosts, switches, links, docker, config, mirror>>

\* the networks nodes are given: networks of up to two hosts, for each prefix
\* length the first and the last network of that length, and one base with a
\* host bit set
FirstAndLast(prefix) == {0, 2 ^ AddrBits - NetSize(prefix)}
HostBitCounts == 0..2
InterfaceCounts == 0..3
NodeArgs ==
    {a \in [base : 0..(2 ^ AddrBits - 1), prefix : 0..AddrBits,
            num_interfaces : InterfaceCounts] :
        /\ AddrBits - a.prefix \in HostBitCounts
        /\ a.base \in FirstAndLast(a.prefix) \/ (a.base = 1 /\ a.prefix = AddrBits - 1)}

\* node = Node(num_interfaces=n, base_ip_address=base, subnet_cidr=prefix)
MirrorNodeOf(ids) ==
    \E id \in ids, a \in NodeArgs, build \in Builds :
        /\ a.prefix # AddrBits => build = "generator"
        /\ IF HasHostBits(a.base, a.prefix)
           THEN result' = "ValueError" /\ mirror' = mirror
           ELSE LET out == MirrorNode_init(a.num_interfaces, a.base, a.prefix, build)
                IN result' = out.err /\ mirror' = [mirror EXCEPT ![id] = Some(out.node)]
        /\ lastOp' = Op("mirror_node", id, a)
        /\ returned' = None
        /\ calls' = <<>>
        /\ UNCHANGED <<hosts, switches, links, docker, config, tables>>

MirrorNode == MirrorNodeOf(NodeIds)

\* node.add_interface(index) on a constructed node, index being the next one
AddInterfaceOf(ids) ==
    \E id \in ids :
        /\ mirror[id] # None
        /\ mirror[id][1].interfaces # None
        /\ LET node == mirror[id][1]
               out == add_interface(node, Len(node.created), None)
           IN result' = out.err /\ mirror' = [mirror EXCEPT ![id] = Some(out.node)]
        /\ lastOp' = Op("add_interface", id, <<>>)
        /\ returned' = None
        /\ calls' = <<>>
        /\ UNCHANGED <<hosts, switches, links, docker, config, tables>>

AddInterface == AddInterfaceOf(NodeIds)

\* the interface runs work on one node
IfaceNodeIds == {1}
IfaceMirrorNode == MirrorNodeOf(IfaceNodeIds)
IfaceAddInterface == AddInterfaceOf(IfaceNodeIds)

\* node.add_interface(0, ip_address) on a node constructed with an interface
\* 0, once: the network database may accept or reject a second veth0
GivenAddresses == {None, Some(0)}
AddInterfaceAgain ==
    \E id \in IfaceNodeIds, ip_address \in GivenAddresses, rejected \in BOOLEAN :
        /\ mirror[id] # None
        /\ mirror[id][1].interfaces \notin {None, Some({})}
        /\ Len(SelectSeq(mirror[id][1].created, LAMBDA c : c.index = 0)) = 1
        /\ LET node == mirror[id][1]
               out == IF rejected THEN add_interface_rejected(node, 0, ip_address)
                      ELSE add_interface(node, 0, ip_address)
           IN result' = out.err /\ mirror' = [mirror EXCEPT ![id] = Some(out.node)]
        /\ lastOp' = Op("add_interface_again", id, ip_address)
        /\ returned' = None
        /\ calls' = <<>>
        /\ UNCHANGED <<hosts, switches, links, docker, config, tables>>

\* the topology runs: a topology is populated, started and stopped
Next ==
    \/ AddNode
    \/ AddLink
    \/ Start
    \/ AsyncStart
    \/ Stop
    \/ AsyncStop

Spec == Init /\ [][Next]_vars

\* the node runs: nodes are added, started, stopped and removed one by one
\* core.topology.Topology.add_node, reached through Mininet3._add_node:
\* node_cls() takes no arguments, and a node_cls of None is not callable
Mininet3_add_node(ctx, name, node_type, node_cls) ==
    IF node_type \notin {"hosts", "links", "switches"} THEN Raise(ctx, "ValueError")
    ELSE IF node_cls = None THEN Raise(ctx, "TypeError")
    ELSE LET looked == IF node_cls[1] = "str"
                       THEN get_cls_by_name(tables, name, node_type)
                       ELSE Found(node_cls[2])
         IN IF looked.err # OK THEN Raise(ctx, looked.err)
            ELSE LET stored == SetColl(ctx, node_type,
                                       DictSet(Coll(ctx, node_type), name,
                                               Construct(looked.val[1], DefaultKw)))
                 IN CallOne(stored, [coll |-> node_type, name |-> name], "start", {})

\* core.topology.Topology.remove_node, reached through Mininet3._remove_node:
\* the topology has no attribute named host, link or switch
Mininet3_remove_node(ctx, name, node_type) ==
    IF node_type \notin {"host", "link", "switch"} THEN Raise(ctx, "ValueError")
    ELSE Raise(ctx, "AttributeError")

\* the node_type Mininet3.add_host / add_switch / add_link and the remove
\* methods pass for each collection
FacadeNodeType == [hosts |-> "host", switches |-> "switch", links |-> "link"]
FacadeTypes == {None, <<"str", "default">>, <<"cls", "Host">>}

\* network.add_host(name, host_type), add_switch, add_link
NetworkAdd ==
    \E t \in TopoTargets \cup PlainTargets \cup {<<<<"l">>, "links">>}, type \in FacadeTypes :
        Commit(Mininet3_add_node(Here, t[1], FacadeNodeType[t[2]], type),
               Op(IF type = None THEN "network_add" ELSE "network_add_typed", t[2], t[1]))

\* network.remove_host(name), remove_switch, remove_link
NetworkRemove ==
    \E t \in TopoTargets \cup PlainTargets \cup {<<<<"l">>, "links">>} :
        Commit(Mininet3_remove_node(Here, t[1], FacadeNodeType[t[2]]),
               Op("network_remove", t[2], t[1]))

NetworkNext ==
    \/ AddNode
    \/ NetworkAdd
    \/ NetworkRemove

SpecNetwork == Init /\ [][NetworkNext]_vars

NodeNext ==
    \/ NodeAddNode
    \/ NodeRemoveNode
    \/ NodeStart
    \/ NodeStop
    \/ NodeAsyncStart
    \/ NodeAsyncStop

SpecNode == Init /\ [][NodeNext]_vars

\* the wiring runs: nodes of the default type, linked and unlinked
\* topology.add_link between the endpoints a.0 and b.0, where a may name a
\* host and a switch at once, with a registered and an unregistered link type
SharedAddLink ==
    AddLinkOf({<<"a", DOT, "0">>, <<"b", DOT, "0">>}, {<<"a", DOT, "0">>, <<"b", DOT, "0">>},
              {Some("default"), Some("bogus")}, BOOLEAN)

SharedNext ==
    \/ WireAddNode
    \/ WireRemoveNode
    \/ SharedAddLink
    \/ AsyncAddLink
    \/ RemoveLink

SpecShared == Init /\ [][SharedNext]_vars

WireNext ==
    \/ WireAddNode
    \/ WireRemoveNode
    \/ WireAddLink
    \/ WireAddLinkPastPort
    \/ AsyncAddLink
    \/ RemoveLink
    \/ RoundTrip

SpecWire == Init /\ [][WireNext]_vars

\* the build runs: a topology of either class is built, entered, started and
\* stopped
BuildNext ==
    \/ Build
    \/ Enter
    \/ BuildAddHost
    \/ BuildStart
    \/ BuildStop
    \/ With
    \/ AsyncWith

SpecBuild == BuildInit /\ [][BuildNext]_vars

\* the registry runs: classes are registered and looked up
RegistryNext ==
    \/ GetClsByName
    \/ GetTopologyByName
    \/ LoadCustomAssets

SpecRegistry == Init /\ [][RegistryNext]_vars

\* the address runs: nodes are constructed and given interfaces
AllocNext ==
    \/ MirrorNode
    \/ AddInterface

SpecAlloc == Init /\ [][AllocNext]_vars

\* the interface runs: one node is constructed and given interfaces, also at
\* an index it already has
IfaceNext ==
    \/ IfaceMirrorNode
    \/ IfaceAddInterface
    \/ AddInterfaceAgain

SpecIface == Init /\ [][IfaceNext]_vars

\* ---------------------------------------------------------------- properties
\* int(port) of a one-digit port string
Digits == <<"0", "1", "2", "3", "4", "5", "6", "7", "8", "9">>
PortIndex(p) == (CHOOSE i \in 1..10 : <<Digits[i]>> = p) - 1

\* the keys Node.__init__ created on a node built with n interfaces
ConstructionKeys(n) == {IntKey(i) : i \in 0..(n - 1)}

\* the interface of `node` at index port `p` holds a reference to port `q`
PeerIs(node, p, q) ==
    /\ IntKey(PortIndex(p)) \in DOMAIN node.interfaces
    /\ node.interfaces[IntKey(PortIndex(p))] = StrVal(q)

\* the link entry's two endpoints reference each other
Wired(ctx, w) ==
    /\ NodeColl(ctx, w.src) # "none"
    /\ NodeColl(ctx, w.dst) # "none"
    /\ PeerIs(get_node_by_name(ctx, w.src), w.sport, w.dport)
    /\ PeerIs(get_node_by_name(ctx, w.dst), w.dport, w.sport)

\* C1: after add_link(name, "A.i", "B.j") succeeds, A's interface at index i
\* references B's interface at index j and B's at j references A's at i, and
\* add_link has written no key other than the indices made at construction
\* (stated for two different nodes A and B).
C1_AddLinkWiresBothPeers ==
    (lastOp.op = "add_link" /\ result = OK) =>
        LET w == Get(links, lastOp.name).wired
        IN  w.src # w.dst =>
                /\ Wired(Here, w)
                /\ \A n \in {w.src, w.dst} :
                     DOMAIN get_node_by_name(Here, n).interfaces \subseteq
                        ConstructionKeys(DefaultNumInterfaces) \cup {ObjKey}

\* C2: a successful add_link(name, "A.0", "B.0") followed by remove_link(name)
\* leaves every node's interfaces map equal to what it was before add_link.
C2_AddThenRemoveRestoresInterfaces ==
    [][lastOp'.op = "round_trip" => (hosts' = hosts /\ switches' = switches)]_vars

\* C3: in every reachable state every stored link has both endpoint nodes
\* present in hosts or switches and its endpoint interfaces reference each other
\* (stated for links between two different nodes).
C3_StoredLinksAreWired ==
    \A i \in 1..Len(links) :
        LET w == links[i].val.wired IN w.src # w.dst => Wired(Here, w)

\* C4: when add_link fails, no node's interfaces have changed and no link was
\* stored.
C4_FailedAddLinkChangesNothing ==
    [][(lastOp'.op = "add_link" /\ result' # OK) =>
            (hosts' = hosts /\ switches' = switches /\ links' = links)]_vars

\* the entities on which a call invoked start (or stop), in the order of the calls
Invoked(evs, ev) ==
    LET sel == SelectSeq(evs, LAMBDA e : e.ev = ev)
    IN [i \in 1..Len(sel) |-> [coll |-> sel[i].coll, name |-> sel[i].name]]

IsPrefix(p, q) == Len(p) <= Len(q) /\ SubSeq(q, 1, Len(p)) = p

\* hosts in insertion order, then switches in insertion order, then links
HostsSwitchesLinks ==
    [i \in 1..Len(hosts) |-> [coll |-> "hosts", name |-> hosts[i].name]]
        \o [i \in 1..Len(switches) |-> [coll |-> "switches", name |-> switches[i].name]]
        \o [i \in 1..Len(links) |-> [coll |-> "links", name |-> links[i].name]]

\* C5: within one Topology.start or async_start the starts are invoked on the
\* hosts in insertion order, then the switches, then the links: what was
\* invoked before an exception is a prefix of that order, and a call that
\* returns has invoked all of it.
C5_StartOrderHostsSwitchesLinks ==
    lastOp.op \in {"start", "async_start"} =>
        /\ IsPrefix(Invoked(calls, "start"), HostsSwitchesLinks)
        /\ result = OK => Invoked(calls, "start") = HostsSwitchesLinks

\* hosts inserted as b then a, a switch and a link, all started by one start
C5_Witness ==
    /\ lastOp.op = "start"
    /\ result = OK
    /\ Len(hosts) = 2 /\ hosts[1].name = <<"b">> /\ hosts[2].name = <<"a">>
    /\ Len(switches) = 1 /\ Len(links) = 1
    /\ Len(Invoked(calls, "start")) = 4

\* C6: within one Topology.stop or async_stop the stops are issued in the
\* order of the starts: hosts in insertion order, then switches, then links.
C6_StopOrderHostsSwitchesLinks ==
    lastOp.op \in {"stop", "async_stop"} =>
        /\ IsPrefix(Invoked(calls, "stop"), HostsSwitchesLinks)
        /\ result = OK => Invoked(calls, "stop") = HostsSwitchesLinks

\* two hosts, a switch and a link, all stopped by one stop
C6_Witness ==
    /\ lastOp.op \in {"stop", "async_stop"}
    /\ result = OK
    /\ Len(hosts) = 2 /\ Len(switches) = 1 /\ Len(links) = 1
    /\ Len(Invoked(calls, "stop")) = 4

\* C7: Topology.stop invokes stop on every host, switch and link of the
\* topology, also when the stop of one of them raises.
C7_StopReachesEveryEntity ==
    lastOp.op = "stop" =>
        \A i \in 1..Len(HostsSwitchesLinks) :
            \E j \in 1..Len(calls) :
                /\ calls[j].ev = "stop"
                /\ calls[j].coll = HostsSwitchesLinks[i].coll
                /\ calls[j].name = HostsSwitchesLinks[i].name

\* the last call was a start that raised after at least one node had started
PartlyStarted ==
    /\ lastOp.op \in {"start", "async_start"}
    /\ result # OK
    /\ Len(Invoked(calls, "start")) >= 2

\* C8: a stop that follows a start which raised part-way does not raise
\* because of a node that was never started: when it raises, the stop that
\* raised was that of a node holding a started container.
C8_StopAfterPartialStart ==
    [][(PartlyStarted /\ lastOp'.op = "stop" /\ result' # OK) =>
            LET stopped == Invoked(calls', "stop")
                failed == stopped[Len(stopped)]
            IN Get(Coll(Here, failed.coll), failed.name).container_id # None]_vars

\* the runtime calls a call made
RuntimeCalls(evs) == SelectSeq(evs, LAMBDA e : e.ev \in RuntimeEvents)

\* C9: stop on a node that is Created (never started) or already Stopped
\* raises nothing, makes no call on the container runtime and leaves the
\* node's state as it was.
C9_StopIsIdempotent ==
    [][(lastOp'.op = "node_stop"
            /\ NodeState(Get(Coll(Here, lastOp'.coll), lastOp'.name), docker)
                    \in {"Created", "Stopped"}) =>
            /\ result' = OK
            /\ RuntimeCalls(calls') = <<>>
            /\ hosts' = hosts /\ switches' = switches /\ docker' = docker]_vars

\* C10: start on a node that is Running does not call the runtime's run
\* again: no new container appears and the node keeps its handle.
C10_StartOnRunningIsNoOp ==
    [][(lastOp'.op = "node_start"
            /\ NodeState(Get(Coll(Here, lastOp'.coll), lastOp'.name), docker) = "Running") =>
            /\ RuntimeCalls(calls') = <<>>
            /\ hosts' = hosts /\ switches' = switches /\ docker' = docker]_vars

\* the collections a node can be stored in
NodeCollections == {"hosts", "switches"}

\* C11: add_node with a name already present in the target collection fails,
\* constructs and starts nothing, and leaves the stored entity and the
\* container runtime as they were.
C11_AddNodeRejectsDuplicateName ==
    [][(lastOp'.op = "add_node" /\ lastOp'.coll \in NodeCollections
            /\ Has(Coll(Here, lastOp'.coll), lastOp'.name)) =>
            /\ result' # OK
            /\ calls' = <<>>
            /\ hosts' = hosts /\ switches' = switches /\ docker' = docker]_vars

\* C12: after add_node has returned or raised, the named node is absent from
\* its collection or present and Running.
C12_AddedNodeAbsentOrRunning ==
    (lastOp.op = "add_node" /\ lastOp.coll \in NodeCollections
        /\ Has(Coll(Here, lastOp.coll), lastOp.name)) =>
        NodeState(Get(Coll(Here, lastOp.coll), lastOp.name), docker) = "Running"

\* the error raised for a node_type that is not accepted
InvalidCategory == "ValueError"

\* C13: add_node with a node_type outside hosts, switches, controllers, and
\* remove_node with one outside hosts, switches, links, fail with
\* InvalidCategory, start and stop nothing, and leave hosts, switches, links and
\* the container runtime unchanged.
C13_InvalidCategoryChangesNothing ==
    [][(\/ lastOp'.op = "add_node"
              /\ lastOp'.coll \notin {"controllers", "hosts", "switches"}
        \/ lastOp'.op = "remove_node"
              /\ lastOp'.coll \notin {"hosts", "links", "switches"}) =>
            /\ result' = InvalidCategory
            /\ calls' = <<>>
            /\ hosts' = hosts /\ switches' = switches /\ links' = links
            /\ docker' = docker]_vars

\* add_node with the node_type links was refused on a topology that holds a
\* host and a switch
C13_Witness ==
    /\ lastOp.op = "add_node" /\ lastOp.coll = "links"
    /\ result = InvalidCategory
    /\ Len(hosts) = 1 /\ Len(switches) = 1

\* C14: add_node with the node_type controllers, when the type resolves and
\* the node is constructed, goes on to store the node and invoke its start as
\* it does for hosts and switches.
C14_AddNodeAcceptsControllers ==
    (lastOp.op = "add_node" /\ lastOp.coll = "controllers" /\ result # "ValueError") =>
        Invoked(calls, "start") = <<[coll |-> "controllers", name |-> lastOp.name]>>

\* the error raised for a name that is not in the collection
NotFound == "KeyError"

\* the names of a collection, in dict order
Names(d) == [i \in 1..Len(d) |-> d[i].name]

\* C15: remove_node with an accepted node_type and a name absent from that
\* collection fails with NotFound, invokes no stop and changes nothing; with a
\* present name it removes that entry and no other from that collection, leaves
\* the other collections as they were and invokes stop once, on that node.
C15_RemoveNodeRemovesAndStopsOne ==
    [][(lastOp'.op = "remove_node" /\ lastOp'.coll \in {"hosts", "links", "switches"}) =>
            LET coll == lastOp'.coll
                name == lastOp'.name
                before == Coll(Here, coll)
                after == Coll(Ctx(hosts', switches', links', docker'), coll)
            IN  IF ~Has(before, name)
                THEN /\ result' = NotFound
                     /\ calls' = <<>>
                     /\ hosts' = hosts /\ switches' = switches /\ links' = links
                     /\ docker' = docker
                ELSE /\ Names(after) = SelectSeq(Names(before), LAMBDA n : n # name)
                     /\ \A n \in Range(Names(after)) : Get(after, n) = Get(before, n)
                     /\ \A c \in {"hosts", "links", "switches"} \ {coll} :
                            Coll(Ctx(hosts', switches', links', docker'), c) = Coll(Here, c)
                     /\ Invoked(calls', "stop") = <<[coll |-> coll, name |-> name]>>]_vars

\* a host was removed and stopped while a switch stays in the topology
C15_Witness ==
    /\ lastOp.op = "remove_node" /\ lastOp.coll = "hosts"
    /\ result = OK
    /\ hosts = <<>> /\ Len(switches) = 1
    /\ \E i \in 1..Len(calls) : calls[i].ev = "cstop"

\* what stop can end with on the node stored under `name` in `coll`
StopResults(coll, name) ==
    {Node_stop(Get(Coll(Here, coll), name), docker, [coll |-> coll, name |-> name], f).err :
        f \in BOOLEAN}

\* C16: when the stop of the removed node raises, the node is absent from its
\* collection all the same and remove_node ends with the error of the stop.
C16_RemoveNodeKeepsRemovalOnStopFailure ==
    [][(lastOp'.op = "remove_node" /\ lastOp'.coll \in NodeCollections
            /\ Has(Coll(Here, lastOp'.coll), lastOp'.name)) =>
            /\ ~Has(Coll(Ctx(hosts', switches', links', docker'), lastOp'.coll), lastOp'.name)
            /\ result' \in StopResults(lastOp'.coll, lastOp'.name)]_vars

\* the runtime failed to stop a running node that remove_node had removed:
\* the node is gone and its container still runs
C16_Witness ==
    /\ lastOp.op = "remove_node" /\ lastOp.coll = "hosts"
    /\ result = "ExecutionFailure"
    /\ hosts = <<>>
    /\ \E i \in 1..Len(calls) :
            calls[i].ev = "get" /\ calls[i].cid > 0 /\ docker[calls[i].cid] = "running"

\* C17: add_link with a name already in links fails, leaves the stored link as
\* it was and changes no node's interfaces.
C17_AddLinkRejectsDuplicateName ==
    [][(lastOp'.op = "add_link" /\ Has(links, lastOp'.name)) =>
            /\ result' # OK
            /\ links' = links
            /\ hosts' = hosts /\ switches' = switches]_vars

\* the error raised for an endpoint whose node is in neither hosts nor switches
NoSuchNode == "KeyError"

\* the node has an interface at port index p
HasInterface(node, p) == IntKey(PortIndex(p)) \in DOMAIN node.interfaces

\* C18: add_link that fails with NoSuchNode stores no link and changes no
\* node's interfaces, and add_link never succeeds for an endpoint whose node
\* has no interface at the given port index.
C18_AddLinkChecksNodesAndInterfaces ==
    [][lastOp'.op = "add_link" =>
            /\ result' = NoSuchNode =>
                    (links' = links /\ hosts' = hosts /\ switches' = switches)
            /\ result' = OK =>
                    LET w == Get(links', lastOp'.name).wired
                    IN /\ NodeColl(Here, w.src) # "none"
                       /\ NodeColl(Here, w.dst) # "none"
                       /\ HasInterface(get_node_by_name(Here, w.src), w.sport)
                       /\ HasInterface(get_node_by_name(Here, w.dst), w.dport)]_vars

\* the interfaces of the node record a peer for port p
HasPeer(node, p) ==
    \E k \in {StrKey(p), IntKey(PortIndex(p))} \cap DOMAIN node.interfaces :
        node.interfaces[k] \notin {IfaceObj, NoneVal}

\* neither endpoint of the link entry w records a peer in the nodes of h and s
\* (asked of links between two different nodes)
Unconnected(h, s, w) ==
    LET ctx == Ctx(h, s, <<>>, <<>>)
    IN w.src # w.dst =>
       /\ NodeColl(ctx, w.src) # "none" => ~HasPeer(get_node_by_name(ctx, w.src), w.sport)
       /\ NodeColl(ctx, w.dst) # "none" => ~HasPeer(get_node_by_name(ctx, w.dst), w.dport)

\* C19: remove_link with a name absent from links fails with NotFound and
\* changes nothing; with a present name the link is stopped and absent
\* afterwards, and when the call returns both former endpoints are unconnected.
C19_RemoveLinkUnwiresAndRemoves ==
    [][lastOp'.op = "remove_link" =>
            IF ~Has(links, lastOp'.name)
            THEN /\ result' = NotFound
                 /\ calls' = <<>>
                 /\ links' = links /\ hosts' = hosts /\ switches' = switches
            ELSE /\ ~Has(links', lastOp'.name)
                 /\ Invoked(calls', "stop") = <<[coll |-> "links", name |-> lastOp'.name]>>
                 /\ result' = OK =>
                        Unconnected(hosts', switches', Get(links, lastOp'.name).wired)]_vars

\* C20: when the stop of the link raises inside remove_link, the link is
\* absent from links afterwards and both former endpoints are unconnected.
C20_RemoveLinkUnwiresOnStopFailure ==
    [][(lastOp'.op = "remove_link" /\ Has(links, lastOp'.name)
            /\ result' = "ExecutionFailure") =>
            /\ ~Has(links', lastOp'.name)
            /\ Unconnected(hosts', switches', Get(links, lastOp'.name).wired)]_vars

\* C21: a step that takes a link out of links by anything but remove_link
\* leaves both former endpoints of that link unconnected.
C21_LinksLeaveOnlyUnwired ==
    [][\A i \in 1..Len(links) :
            (~Has(links', links[i].name)
                /\ lastOp'.op \notin {"remove_link", "round_trip"}) =>
                Unconnected(hosts', switches', links[i].val.wired)]_vars

\* the classes registered as switch types
SwitchClasses == {SWITCH_TYPES[n] : n \in DOMAIN SWITCH_TYPES}

\* C23: a node that add_node stores in switches from a type name is of a
\* class registered in SWITCH_TYPES, and one stored in hosts of a class
\* registered in HOST_TYPES.
C23_NodeClassMatchesCategory ==
    /\ \A i \in 1..Len(switches) : switches[i].val.cls \in SwitchClasses
    /\ \A i \in 1..Len(hosts) :
            hosts[i].val.cls \in {HOST_TYPES[n] : n \in DOMAIN HOST_TYPES}

\* the error raised when a container node has no image or no command
MissingExecutionSpec == "ValueError"

\* the node is a container node without an image or without a command
LacksExecutionSpec(node) ==
    node.cls \in DockerClasses /\ (~Truthy(node.image) \/ ~Truthy(node.command))

\* C26: start and async_start on a container node whose image or command is
\* absent or empty fail with MissingExecutionSpec, make no call on the
\* container runtime, record no handle and leave the node not Running.
C26_StartWithoutSpecContactsNothing ==
    [][(lastOp'.op \in {"node_start", "node_async_start"}
            /\ LacksExecutionSpec(Get(Coll(Here, lastOp'.coll), lastOp'.name))) =>
            LET after == Get(Coll(Ctx(hosts', switches', links', docker'), lastOp'.coll),
                             lastOp'.name)
            IN /\ result' = MissingExecutionSpec
               /\ RuntimeCalls(calls') = <<>>
               /\ docker' = docker
               /\ after.container_id = None
               /\ NodeState(after, docker') # "Running"]_vars

\* async_start was refused on a stored container node built without image and
\* command, while another container runs
C26_Witness ==
    /\ lastOp.op = "node_async_start"
    /\ result = MissingExecutionSpec
    /\ LacksExecutionSpec(Get(Coll(Here, lastOp.coll), lastOp.name))
    /\ Len(docker) > 0

\* how many of the runtime calls in evs are calls of ev
Count(evs, ev) == Len(SelectSeq(evs, LAMBDA e : e.ev = ev))

\* C27: a start or stop of a container node that has its image and command
\* calls the runtime once (one run; one get and at most one stop of the
\* container) and ends normally or with ExecutionFailure; after a start that
\* ended with ExecutionFailure the node holds no handle and is not Running.
C27_RuntimeFailurePropagatesOnce ==
    [][(lastOp'.op \in {"node_start", "node_async_start", "node_stop", "node_async_stop"}
            /\ Get(Coll(Here, lastOp'.coll), lastOp'.name).cls \in DockerClasses
            /\ ~LacksExecutionSpec(Get(Coll(Here, lastOp'.coll), lastOp'.name))) =>
            LET after == Get(Coll(Ctx(hosts', switches', links', docker'), lastOp'.coll),
                             lastOp'.name)
            IN  IF lastOp'.op \in {"node_start", "node_async_start"}
                THEN /\ Count(calls', "run") = 1
                     /\ result' \in {OK, "ExecutionFailure"}
                     /\ result' = "ExecutionFailure" =>
                            /\ after.container_id = None
                            /\ NodeState(after, docker') # "Running"
                ELSE /\ Count(calls', "get") = 1
                     /\ Count(calls', "cstop") <= 1
                     /\ result' \in {OK, "ExecutionFailure"}]_vars

\* C28: async_add_link ends with the same outcome and the same topology as
\* add_link called on the same topology with the same name, endpoints and
\* link type (stated for topologies that hold both endpoint nodes).
C28_AsyncAddLinkMatchesAddLink ==
    [][(lastOp'.op = "async_add_link"
            /\ NodeColl(Here, rsplit(AsyncLinkSrc)[1]) # "none"
            /\ NodeColl(Here, rsplit(AsyncLinkDst)[1]) # "none") =>
            LET sync == add_link(Here, lastOp'.name, AsyncLinkSrc, AsyncLinkDst,
                                 AsyncLinkType, FALSE)
            IN /\ result' = sync.err
               /\ hosts' = sync.hosts
               /\ switches' = sync.switches
               /\ links' = sync.links]_vars

\* C29: a topology is Unbuilt, Built, Running or Stopped, and start is accepted
\* only when it is Built or Stopped: a start on a topology nothing was built on,
\* or on one a start or an enter has just brought up, is refused and calls nothing
C29_StartOnlyWhenBuiltOrStopped ==
    [][(/\ lastOp'.op \in {"start", "async_start"}
        /\ \/ lastOp.op = "init"
           \/ lastOp.op \in {"start", "async_start", "enter"} /\ result = OK)
            => (result' # OK /\ calls' = <<>>)]_vars

\* C30: build starts no node/link and leaves the container runtime alone; an
\* enter that returns has started each entity of the topology exactly once
C30_BuildStartsNothing ==
    [][/\ lastOp'.op = "build" => (Invoked(calls', "start") = <<>> /\ docker' = docker)
       /\ (lastOp'.op = "enter" /\ result' = OK) =>
              \A x \in Nodes(hosts', switches') :
                  Len(SelectSeq(Invoked(calls', "start"), LAMBDA e : e = x)) = 1]_vars

UnknownType == "ValueError"

\* C22: a lookup of a (kind, name) pair that no dict holds fails with
\* UnknownType; a lookup of a pair a dict holds returns the class the dict
\* holds; and load_custom_assets leaves every pair it registers bound to the
\* class it registered, so a later lookup returns the latest one
C22_ResolveReturnsLatestRegistered ==
    [][/\ lastOp'.op \in {"get_cls_by_name", "get_topology_by_name"} =>
              LET kind == lastOp'.coll
                  name == lastOp'.name
              IN IF kind \in DOMAIN tables /\ name \in DOMAIN tables[kind]
                 THEN result' = OK /\ returned' = Some(tables[kind][name])
                 ELSE result' = UnknownType /\ returned' = None
       /\ lastOp'.op = "load_custom_assets" =>
              \A kind \in LoadedKinds :
                  /\ \A n \in DOMAIN lastOp'.name[kind] :
                         /\ n \in DOMAIN tables'[kind]
                         /\ tables'[kind][n] = lastOp'.name[kind][n]
                  /\ \A n \in (DOMAIN tables[kind]) \ (DOMAIN lastOp'.name[kind]) :
                         /\ n \in DOMAIN tables'[kind]
                         /\ tables'[kind][n] = tables[kind][n]]_vars

\* the nodes constructed so far
MirrorNodes == {mirror[id][1] : id \in {i \in NodeIds : mirror[i] # None}}
StrictlyIncreasing(q) == \A i, j \in 1..Len(q) : i < j => q[i] < q[j]
\* two allocators of one network hand out the same sequence: as far as both
\* have got, they agree
SameSequence(n, m) ==
    (n.base = m.base /\ n.prefix = m.prefix) =>
        (IsPrefix(n.handed, m.handed) \/ IsPrefix(m.handed, n.handed))
\* strictly between the network address and the broadcast address
InsideHostRange(n, a) == n.base < a /\ a < broadcast_address(n.base, n.prefix)

AddressSpaceExhausted == "StopIteration"

\* how many usable host addresses a network has: all but the network and the
\* broadcast address; both addresses of a network with one host bit; for a
\* full-length prefix the rules can be read either way, none or the one address
UsableCounts(prefix) ==
    IF prefix = AddrBits THEN {0, 1}
    ELSE IF prefix = AddrBits - 1 THEN {2}
    ELSE {NetSize(prefix) - 2}

\* C25: a request for an address succeeds while usable addresses are left and
\* creates one interface; once all are handed out it fails with
\* AddressSpaceExhausted, the caller of add_interface or of the constructor
\* sees that failure, and no interface is created for the failing request
C25_ExhaustionFailsAndCreatesNothing ==
    [][/\ lastOp'.op = "add_interface" =>
              LET before == mirror[lastOp'.coll][1]
                  after == mirror'[lastOp'.coll][1]
              IN \E usable \in UsableCounts(before.prefix) :
                    IF Len(before.handed) < usable
                    THEN result' = OK /\ Len(after.created) = Len(before.created) + 1
                    ELSE result' = AddressSpaceExhausted /\ after.created = before.created
       /\ (lastOp'.op = "mirror_node"
              /\ ~HasHostBits(lastOp'.name.base, lastOp'.name.prefix)) =>
              LET after == mirror'[lastOp'.coll][1]
                  asked == lastOp'.name.num_interfaces
              IN \E usable \in UsableCounts(after.prefix) :
                    IF asked <= usable
                    THEN result' = OK /\ Len(after.created) = asked
                    ELSE result' = AddressSpaceExhausted /\ Len(after.created) = usable]_vars

\* the three links of the linear topology, as link entries' endpoints
LinearWiring ==
    {[src |-> <<"h1">>, sport |-> <<"0">>, dst |-> <<"s1">>, dport |-> <<"0">>],
     [src |-> <<"h2">>, sport |-> <<"0">>, dst |-> <<"s2">>, dport |-> <<"0">>],
     [src |-> <<"s1">>, sport |-> <<"1">>, dst |-> <<"s2">>, dport |-> <<"1">>]}

\* C31: on an empty linear topology with the default types, build returns
\* with exactly the hosts h1, h2, the switches s1, s2 and the three links
\* h1.0-s1.0, h2.0-s2.0, s1.1-s2.1 wired; enter (build, then start) returns
\* with every node and every link Running
C31_LinearTopologyScenario ==
    [][(/\ lastOp'.op \in {"build", "enter"}
        /\ config = [DefaultConfig EXCEPT !.cls = "LinearTopology"]
        /\ hosts = <<>> /\ switches = <<>> /\ links = <<>>)
            => (/\ result' = OK
                /\ Names(hosts') = <<H1, H2>>
                /\ Names(switches') = <<S1, S2>>
                /\ {links'[i].val.wired : i \in 1..Len(links')} = LinearWiring
                /\ \A i \in 1..Len(links') : Wired(Ctx(hosts', switches', links', docker'),
                                                  links'[i].val.wired)
                /\ lastOp'.op = "enter" =>
                      /\ \A x \in Nodes(hosts', switches') :
                            NodeState(Get(Coll(Ctx(hosts', switches', links', docker'),
                                               x.coll), x.name), docker') = "Running"
                      /\ \A i \in 1..Len(links') : links'[i].val.state = "Running")]_vars

DuplicateInterface == "CreateError"

\* C32: add_interface at an index the node already has fails with
\* DuplicateInterface and leaves the node, its interfaces and its allocator as
\* they were; an add_interface that succeeds records the new interface under
\* its index in the node's interfaces map
C32_AddInterfaceRejectsDuplicateIndex ==
    [][/\ lastOp'.op = "add_interface_again" =>
              /\ result' = DuplicateInterface
              /\ mirror'[lastOp'.coll] = mirror[lastOp'.coll]
       /\ (lastOp'.op = "add_interface" /\ result' = OK) =>
              LET before == mirror[lastOp'.coll][1]
                  after == mirror'[lastOp'.coll][1]
              IN /\ Len(before.created) \in after.interfaces[1]
                 /\ after.created[Len(after.created)].address =
                        Head(before.available_addresses.items)]_vars

\* the keys of the interfaces map of the node `name` of collection `coll`
InterfaceKeys(d, name) == DOMAIN Get(d, name).interfaces

\* C33: a node that add_node has just stored has exactly the interface keys
\* 0..num_interfaces-1, and add_link and remove_link add no key to the
\* interfaces map of any node
C33_InterfaceKeysDenseAndStable ==
    [][/\ (lastOp'.op = "add_node" /\ lastOp'.coll \in NodeCollections
              /\ Has(Coll(Ctx(hosts', switches', links', docker'), lastOp'.coll),
                     lastOp'.name)
              /\ ~Has(Coll(Here, lastOp'.coll), lastOp'.name)) =>
              InterfaceKeys(Coll(Ctx(hosts', switches', links', docker'), lastOp'.coll),
                            lastOp'.name) = ConstructionKeys(DefaultNumInterfaces)
       /\ lastOp'.op \in {"add_link", "remove_link", "round_trip", "async_add_link"} =>
              /\ \A i \in 1..Len(hosts) :
                    Has(hosts', hosts[i].name) =>
                        InterfaceKeys(hosts', hosts[i].name)
                            \subseteq InterfaceKeys(hosts, hosts[i].name)
              /\ \A i \in 1..Len(switches) :
                    Has(switches', switches[i].name) =>
                        InterfaceKeys(switches', switches[i].name)
                            \subseteq InterfaceKeys(switches, switches[i].name)]_vars

\* the entity x of the topology after the step is Running
RunningAfter(x) ==
    LET ent == Get(Coll(Ctx(hosts', switches', links', docker'), x.coll), x.name)
    IN IF x.coll = "links" THEN ent.state = "Running"
       ELSE NodeState(ent, docker') = "Running"

\* C34: when start or async_start ends with an exception, the entities whose
\* start was invoked before the failing one are Running and every collection
\* holds the names it held, the call has invoked no stop, and the entities
\* after the failing one are as they were
C34_FailedStartRollsNothingBack ==
    [][(lastOp'.op \in {"start", "async_start"} /\ result' # OK) =>
          LET started == Invoked(calls', "start")
          IN /\ Names(hosts') = Names(hosts)
             /\ Names(switches') = Names(switches)
             /\ Names(links') = Names(links)
             /\ Invoked(calls', "stop") = <<>>
             /\ \A e \in Range(calls') : e.ev \in {"start", "run"}
             /\ \A i \in 1..(Len(started) - 1) : RunningAfter(started[i])
             /\ \A x \in Range(HostsSwitchesLinks) \ Range(started) :
                   Get(Coll(Ctx(hosts', switches', links', docker'), x.coll), x.name)
                       = Get(Coll(Here, x.coll), x.name)]_vars

\* a start that failed after it had started a node and before it reached
\* the last entity
C34_Witness ==
    /\ lastOp.op = "start"
    /\ result # OK
    /\ Len(Invoked(calls, "start")) >= 2
    /\ Len(Invoked(calls, "start")) < Len(HostsSwitchesLinks)

\* C35: Mininet3.add_host and add_switch with no type store under the name
\* a node of the topology's default type for the collection, and
\* remove_host / remove_switch / remove_link remove a present name and raise
\* KeyError only for an absent one
C35_NetworkDelegatesToTopology ==
    [][/\ (lastOp'.op = "network_add" /\ lastOp'.coll \in {"hosts", "switches"}) =>
            /\ result' = OK
            /\ Has(Coll(Ctx(hosts', switches', links', docker'), lastOp'.coll), lastOp'.name)
            /\ Get(Coll(Ctx(hosts', switches', links', docker'), lastOp'.coll),
                   lastOp'.name).cls
                  = IF lastOp'.coll = "hosts" THEN HOST_TYPES[config.host_type[2]]
                    ELSE SWITCH_TYPES[config.switch_type[2]]
       /\ lastOp'.op = "network_remove" =>
            IF Has(Coll(Here, lastOp'.coll), lastOp'.name)
            THEN /\ result' = OK
                 /\ ~Has(Coll(Ctx(hosts', switches', links', docker'), lastOp'.coll),
                         lastOp'.name)
            ELSE result' = NotFound]_vars

\* the endpoint string names a node the topology holds
Resolves(ctx, port) == Len(rsplit(port)) = 2 /\ NodeColl(ctx, rsplit(port)[1]) # "none"

\* C36: with the type omitted, add_node stores a node of the topology's
\* host_type or switch_type, and add_link between two endpoints that resolve
\* succeeds and stores a link of the class registered under the topology's
\* link_type
C36_OmittedTypeUsesTopologyDefault ==
    /\ \A t \in {<<<<"b">>, "hosts">>, <<<<"s">>, "switches">>} :
          LET out == add_node(Here, t[1], t[2], None, DefaultKw, {})
          IN Has(Coll(out, t[2]), t[1]) =>
                Get(Coll(out, t[2]), t[1]).cls
                    = get_node_cls((IF t[2] = "hosts" THEN config.host_type
                                    ELSE config.switch_type)[2])[1]
    /\ \A name \in LinkNames, src_port \in EndpointStrings, dst_port \in EndpointStrings :
          (Resolves(Here, src_port) /\ Resolves(Here, dst_port)
           /\ config.link_type[2] \in DOMAIN LINK_TYPES) =>
              LET out == add_link(Here, name, src_port, dst_port, None, FALSE)
              IN /\ out.err = OK
                 /\ Has(out.links, name)
                 /\ Get(out.links, name).cls = LINK_TYPES[config.link_type[2]]

\* endpoint strings without a separator, with an empty node name and with an
\* empty port segment
MalformedEndpoints == {<<"a", "0">>, <<DOT, "0">>, <<"a", DOT>>}

\* C37: an endpoint string is split at its last '.', so the name of a dotted
\* node is everything before it; add_link with an endpoint that has no '.',
\* an empty node name or an empty port segment, as source or as destination,
\* ends with an exception and leaves links and every node as they were
C37_EndpointParsing ==
    /\ rsplit(<<"a", DOT, "b", DOT, "0">>) = << <<"a", DOT, "b">>, <<"0">> >>
    /\ \A name \in LinkNames, bad \in MalformedEndpoints, good \in {<<"a", DOT, "0">>},
          first \in BOOLEAN :
          LET out == add_link(Here, name, IF first THEN bad ELSE good,
                              IF first THEN good ELSE bad, Some("default"), FALSE)
          IN /\ out.err # OK
             /\ out.links = links
             /\ out.hosts = hosts
             /\ out.switches = switches

\* the topology after the step
After == Ctx(hosts', switches', links', docker')

\* the container id the node x holds in ctx
Handle(ctx, x) == Get(Coll(ctx, x.coll), x.name).container_id

\* C38: a start that succeeds on a container node leaves in the node the id
\* of the container its run call returned, an id no other node holds, and a
\* start that fails leaves the recorded id as it was; a stop of a node that
\* holds an id makes its runtime calls on that id only, in the node's own
\* name, stops that container when it succeeds, and keeps the id
C38_StopUsesRecordedHandle ==
    [][LET me == [coll |-> lastOp'.coll, name |-> lastOp'.name]
       IN /\ (lastOp'.op \in {"node_start", "node_async_start"} /\ result' = OK) =>
                \E e \in Range(calls') :
                    /\ e.ev = "run" /\ e.cid > 0
                    /\ Handle(After, me) = Some(e.cid)
                    /\ docker'[e.cid] = "running"
                    /\ \A x \in Nodes(hosts', switches') \ {me} :
                          Handle(After, x) # Some(e.cid)
          /\ (lastOp'.op \in {"node_start", "node_async_start"} /\ result' # OK) =>
                Handle(After, me) = Handle(Here, me)
          /\ (lastOp'.op \in {"node_stop", "node_async_stop"}
                /\ Handle(Here, me) # None) =>
                /\ \A e \in Range(RuntimeCalls(calls')) :
                      /\ Some(e.cid) = Handle(Here, me)
                      /\ e.coll = me.coll /\ e.name = me.name
                /\ result' = OK =>
                      /\ \E e \in Range(calls') : e.ev = "cstop"
                      /\ docker'[Handle(Here, me)[1]] = "exited"
                /\ Handle(After, me) = Handle(Here, me)
                /\ \A x \in Nodes(hosts, switches) \ {me} : Handle(Here, x) # Handle(Here, me)
          /\ lastOp'.op \in {"node_start", "node_async_start", "node_stop",
                             "node_async_stop"} =>
                \A x \in Nodes(hosts, switches) \ {me} : Handle(After, x) = Handle(Here, x)]_vars

\* a node started a second time has been stopped on its second container
\* while another node holds a container of its own
C38_Witness ==
    /\ lastOp.op = "node_stop"
    /\ result = OK
    /\ \E e \in Range(calls) :
          /\ e.ev = "cstop" /\ e.cid >= 2
          /\ Handle(Here, [coll |-> lastOp.coll, name |-> lastOp.name]) = Some(e.cid)
          /\ \E x \in Nodes(hosts, switches) :
                Handle(Here, x) # None /\ Handle(Here, x) # Some(e.cid)

\* C39: a with statement or an async with statement on the topology that
\* ends without an exception has bound the topology itself, and when either
\* is left, stop has been invoked on every entity whose start was invoked on
\* entry
C39_ContextManagerBracketsLifecycle ==
    [][lastOp'.op \in {"with", "async_with"} =>
          /\ result' = OK => returned' = Some("self")
          /\ Range(Invoked(calls', "start")) \subseteq Range(Invoked(calls', "stop"))]_vars

\* the name is held by a host and by a switch
Shared(name) == Has(hosts, name) /\ Has(switches, name)

\* C40: add_link, async_add_link and remove_link leave a switch whose name a
\* host also holds exactly as it was, whether they succeed or fail, and after
\* a successful add_link an endpoint naming such a pair is recorded on the
\* host: the host's interfaces map the endpoint's port to the peer's port
C40_SharedNameResolvesToHost ==
    [][lastOp'.op \in {"add_link", "async_add_link", "remove_link", "round_trip"} =>
          /\ \A i \in 1..Len(switches) :
                Shared(switches[i].name) =>
                    /\ Has(switches', switches[i].name)
                    /\ Get(switches', switches[i].name) = switches[i].val
          /\ (lastOp'.op = "add_link" /\ result' = OK) =>
                LET w == Get(links', lastOp'.name).wired
                IN /\ Shared(w.src) =>
                        /\ StrKey(w.sport) \in DOMAIN Get(hosts', w.src).interfaces
                        /\ Get(hosts', w.src).interfaces[StrKey(w.sport)] = StrVal(w.dport)
                   /\ Shared(w.dst) =>
                        /\ StrKey(w.dport) \in DOMAIN Get(hosts', w.dst).interfaces
                        /\ Get(hosts', w.dst).interfaces[StrKey(w.dport)] = StrVal(w.sport)]_vars

\* a link has been added from an endpoint whose name a host and a switch
\* share: the host holds the port and the switch does not
C40_Witness ==
    /\ lastOp.op = "add_link"
    /\ result = OK
    /\ LET w == Get(links, lastOp.name).wired
       IN /\ Shared(w.src)
          /\ StrKey(w.sport) \in DOMAIN Get(hosts, w.src).interfaces
          /\ StrKey(w.sport) \notin DOMAIN Get(switches, w.src).interfaces
====
